---- MODULE Spec2Model ----
(***************************************************************************)
(* E.V.O. decompressor (src/E.V.O/decomptest.py): decompress_evo_data and  *)
(* detect_decompress_parameters as a state machine.  One step of the model *)
(* is the header read, one iteration of the main decompression loop, or    *)
(* the loop's exit.  Positions are 0-based as in the Python source; the    *)
(* TLA+ sequences are 1-based, so compressed_data[i] of the source is      *)
(* compressed_data[i + 1] here.                                            *)
(***************************************************************************)
EXTENDS Integers, Sequences, FiniteSets, TLC

VARIABLES
    compressed_data,  \* argument: the input bytes (immutable)
    start_offset,     \* argument
    special_mode,     \* argument (main may set it from the heuristic)
    pc,               \* "entry", "decode", "loop", "done", "raised"
    output,           \* bytearray being built
    pos,              \* read cursor into compressed_data
    ec_value,         \* control byte with bit 7 cleared
    special_flag,     \* control byte bit 7
    data_size,        \* expected output size
    special_counter,  \* 0x100 countdown (special mode only, else None = -1)
    bit_count,        \* command bits taken from command_byte
    command_byte,     \* remaining command bits
    detected,         \* value returned by detect_decompress_parameters, or <<>>
    printed,          \* set of messages printed so far
    last,             \* history: what the last step did
    bits,             \* history: command bits consumed so far, in order
    cmd_bytes,        \* history: command bytes read so far, in order
    emitted           \* history: commands emitted (literal appended / match copied)

vars == <<compressed_data, start_offset, special_mode, pc, output, pos, ec_value,
          special_flag, data_size, special_counter, bit_count, command_byte,
          detected, printed, last, bits, cmd_bytes, emitted>>

args == <<compressed_data, start_offset>>

-----------------------------------------------------------------------------
(* Bounds of the model and constants of the program *)

MaxLen == 6
MaxStart == 1
SpecialInit == 256
MaxCopy == 8192
None == 0 - 1

\* Byte values the exhaustively enumerated buffers are built from.  0x00, 0x01
\* and 0xF0 serve as control bytes (base length 0, 1, and 0x70 with the
\* extended-length flag), size bytes, command bytes (all matches; one literal,
\* then matches; four matches, then four literals), literal bytes and
\* match-info bytes (offsets 1, 2, 241, 257; length fields 0 and 15).
Alphabet == {0, 1, 240}

SmallInputs == UNION {[1..n -> Alphabet] : n \in 0..MaxLen}

\* n groups of one command byte 0xFF followed by eight literal bytes.
LiteralGroups(n) == [i \in 1..(9 * n) |-> IF i % 9 = 1 THEN 255 ELSE 16 + (i % 7)]

\* n groups of one command byte 0x55 (literal, match, literal, match, ...) with
\* four literal bytes and four match words of length field 0 and offset 1, 3
\* or 5 (every fourth position: offset beyond 3840, which no output reaches).
MixedGroups(n) ==
    [i \in 1..(13 * n) |->
        IF i % 13 = 1 THEN 85
        ELSE IF (i % 13) % 3 = 2 THEN 32 + (i % 5)
        ELSE IF (i % 13) % 3 = 0 /\ i % 13 # 0 THEN 2 * (i % 3)
        ELSE IF i % 4 = 0 THEN 15
        ELSE 0]

RECURSIVE Prefixes(_)
Prefixes(s) == IF s = <<>> THEN {<<>>} ELSE {s} \cup Prefixes(SubSeq(s, 1, Len(s) - 1))

\* Hand-written streams (and all their truncations).
ShortVectors ==
    { <<0, 4, 0, 15, 170, 187, 204, 221>>,                 \* four literals
      <<0, 4, 0, 3, 65, 66, 1, 32>>,                       \* overlapping copy, offset 2 length 2
      <<3, 8, 0, 3, 65, 66, 1, 0, 0, 0>>,                  \* offset 2 shorter than length 3
      <<3, 3, 0, 1, 7, 0, 0, 9>>,                          \* copy limited to data_size
      <<129, 64, 0, 1, 85, 0, 240, 5, 2, 16, 0, 0>>,       \* extended length, valid offset
      <<129, 64, 0, 2, 5, 240, 9, 85, 0, 0>>,              \* extended length, invalid offset
      <<2, 9, 0, 0, 0, 0, 0, 0, 0, 0, 0, 0, 0, 0, 0, 0, 0, 0, 0, 0,
        5, 33, 0, 0, 34, 1, 0>> }                          \* eight skipped matches, then reload

\* One literal, then a match on it (and whatever follows as further matches):
\* every combination of base length, extended-length flag, expected size,
\* offset, length field and tail.
MatchInputs ==
    { <<c, sz, 0, 1, 77, lo, hi>> \o tail :
        c \in {0, 1, 2, 129, 240}, sz \in {1, 2, 3, 5, 200},
        lo \in {0, 1}, hi \in {0, 16, 240},
        tail \in {<<>>, <<7>>, <<7, 0, 0>>, <<1, 32, 0>>} }

\* Long streams: more literal commands than the special counter allows.
LongVectors ==
    { <<0, 0, 2>> \o LiteralGroups((SpecialInit \div 8) + 1),
      <<0, 0, 1>> \o LiteralGroups((SpecialInit \div 8) + 1),
      <<0, 0, 2>> \o LiteralGroups(SpecialInit \div 8),
      <<0, 1, 1>> \o LiteralGroups((SpecialInit \div 8) + 1),
      <<255, 0, 2, 1, 9, 0, 240, 255>>,                    \* longest extended copy
      <<127, 0, 2, 1, 9, 0, 240>>,                         \* longest plain copy
      <<2, 0, 4>> \o MixedGroups((SpecialInit \div 8) + 12),
      <<0, 0, 4>> \o MixedGroups((SpecialInit \div 8) + 12) }

Inputs ==
    SmallInputs \cup (UNION {Prefixes(v) : v \in ShortVectors}) \cup MatchInputs
        \cup LongVectors

-----------------------------------------------------------------------------
(* Python primitives *)

DataLen == Len(compressed_data)

\* compressed_data[i]; an index past the end raises IndexError (None here, and
\* the step that read it ends in pc = "raised").
At(i) == IF i >= 0 /\ i < DataLen THEN compressed_data[i + 1] ELSE None

IndexError(reads) == \E i \in reads : i < 0 \/ i >= DataLen

\* s[i] with Python's index rules: a negative index counts from the end.
PyIndex(s, i) ==
    IF i >= 0 /\ i < Len(s) THEN s[i + 1]
    ELSE IF i < 0 /\ i + Len(s) >= 0 THEN s[i + Len(s) + 1]
    ELSE None

-----------------------------------------------------------------------------
(* detect_decompress_parameters *)

TooShort(so, n) == so + 3 >= n

IsSpecial(control_byte, size) == control_byte = 1 /\ size % 256 = 0

DetectResult(data, so) ==
    IF TooShort(so, Len(data)) THEN <<FALSE, 0, 0>>
    ELSE LET control_byte == data[so + 1]
             size == data[so + 2] + data[so + 3] * 256
         IN <<IsSpecial(control_byte, size), control_byte, size>>

-----------------------------------------------------------------------------
(* decompress_evo_data: pieces of the loop body *)

\* Lines 20-31: the header fields.
HasFlag(control) == (control \div 128) % 2 = 1

BaseLengthUnmasked(control) == control

BaseLength(control) == control % 128

DataSize(lo, hi) == lo + hi * 256

AfterHeader(p) == p + 3

LoopCondNoInput(outLen, size, p, n) == outLen < size

LoopCondShort(outLen, size, p, n) == outLen + 1 < size /\ p < n

LoopCond(outLen, size, p, n) == outLen < size /\ p < n

CounterExhaustedLate(sm, c) == sm /\ c < 0

CounterExhausted(sm, c) == sm /\ c <= 0

NeedReloadEarly(bc) == bc >= 7

NeedReload(bc) == bc = 8

CommandBitMsbFirst(b) == (b \div 128) % 2

CommandBit(b) == b % 2

ShiftCommand(b) == b \div 2

LiteralMissingLate(p, n) == p > n

LiteralMissing(p, n) == p >= n

AfterLiteral(p) == p + 1

MatchInfoMissingLate(p, n) == p >= n

MatchInfoMissing(p, n) == p + 1 >= n

AfterMatchInfoStuck(p) == p

AfterMatchInfo(p) == p + 2

MatchOffsetZeroBased(match_info) == match_info % 4096

MatchOffset(match_info) == (match_info % 4096) + 1

LengthField(match_info) == (match_info \div 4096) % 16

HasExtraLength(length_field, flag) == length_field = 15 /\ flag

ExtraMissing(p, n) == p >= n

AfterExtra(p) == p + 1

InvalidOffsetOff(offset, outLen) == FALSE

InvalidOffsetLoose(offset, outLen) == offset > outLen + 1

InvalidOffset(offset, outLen) == offset > outLen

LimitCopyLength(n) == IF n > MaxCopy THEN MaxCopy ELSE n

LimitToDataSizeOff(n, outLen, size) == n

LimitToDataSize(n, outLen, size) == IF outLen + n > size THEN size - outLen ELSE n

EmptyOutput(outLen) == outLen = 0

\* A block copy of the bytes present before the copy starts.
CopyBytesBlock(out, offset, n) ==
    out \o SubSeq(out, Len(out) - offset + 1,
                  IF n < offset THEN Len(out) - offset + n ELSE Len(out))

\* One pass of the loop body, line 121.
CopyByte(out, offset) == Append(out, PyIndex(out, Len(out) - offset))

\* Lines 120-121: n passes, each on the output the previous pass left.  The
\* passes are run as two consecutive runs of passes (the first n \div 2, then
\* the rest), which keeps the evaluation depth logarithmic in n; the output
\* between the two runs is bound as a value, p[1], so that it is computed once.
RECURSIVE CopyBytes(_, _, _)
CopyBytes(out, offset, n) ==
    IF n <= 0 THEN out
    ELSE IF n = 1 THEN CopyByte(out, offset)
    ELSE CHOOSE res \in
            {CopyBytes(p[1], offset, p[2]) :
                p \in {<<CopyBytes(out, offset, n \div 2), n - (n \div 2)>>}} : TRUE

Decrement(sm, c) == IF sm THEN c - 1 ELSE c

\* Lines 128-129, run after the loop however it ended.
Incomplete(outLen, size) == IF outLen < size THEN {"Incomplete"} ELSE {}

-----------------------------------------------------------------------------
(* State after the call is set up; the arguments are drawn from the bounded sets *)

NoLast ==
    [kind |-> "none", pos0 |-> 0, out0 |-> <<>>, reads |-> {}, msgs |-> {},
     loaded |-> FALSE, bit |-> None, offset |-> 0, raw |-> 0, n |-> 0]

Init ==
    /\ compressed_data \in Inputs
    /\ start_offset \in 0..MaxStart
    /\ special_mode \in BOOLEAN
    /\ pc = "entry"
    /\ output = <<>>
    /\ pos = 0
    /\ ec_value = 0
    /\ special_flag = FALSE
    /\ data_size = 0
    /\ special_counter = None
    /\ bit_count = 0
    /\ command_byte = 0
    /\ detected = <<>>
    /\ printed = {}
    /\ last = NoLast
    /\ bits = <<>>
    /\ cmd_bytes = <<>>
    /\ emitted = 0

\* main, lines 232-236: the heuristic runs only when --special was not given.
detect_decompress_parameters ==
    /\ pc = "entry"
    /\ ~special_mode
    /\ detected' = DetectResult(compressed_data, start_offset)
    /\ special_mode' = detected'[1]
    /\ pc' = "decode"
    /\ last' = [NoLast EXCEPT !.kind = "detect"]
    /\ UNCHANGED <<args, output, pos, ec_value, special_flag, data_size, special_counter,
                   bit_count, command_byte, printed, bits, cmd_bytes, emitted>>

\* An uncaught IndexError leaves decompress_evo_data without a return value.
Raise(kind, rd, loaded, bit) ==
    /\ pc' = "raised"
    /\ last' = [NoLast EXCEPT !.kind = kind, !.pos0 = pos, !.out0 = output,
                              !.reads = rd, !.loaded = loaded, !.bit = bit]
    /\ UNCHANGED <<args, special_mode, output, pos, ec_value, special_flag, data_size,
                   special_counter, bit_count, command_byte, detected, printed, bits,
                   cmd_bytes, emitted>>

\* Lines 16-42.
read_header ==
    /\ pc \in {"entry", "decode"}
    /\ LET rd == {start_offset, start_offset + 1, start_offset + 2}
           control == At(start_offset)
       IN IF IndexError(rd) THEN Raise("header_IndexError", rd, FALSE, None)
          ELSE /\ output' = <<>>
               /\ special_flag' = HasFlag(control)
               /\ ec_value' = BaseLength(control)
               /\ data_size' = DataSize(At(start_offset + 1), At(start_offset + 2))
               /\ pos' = AfterHeader(start_offset)
               /\ special_counter' = IF special_mode THEN SpecialInit ELSE None
               /\ bit_count' = 8
               /\ command_byte' = 0
               /\ pc' = "loop"
               /\ last' = [NoLast EXCEPT !.kind = "header", !.pos0 = start_offset,
                                         !.reads = rd]
               /\ UNCHANGED <<args, special_mode, detected, printed, bits, cmd_bytes,
                              emitted>>

Running == pc = "loop" /\ LoopCond(Len(output), data_size, pos, DataLen)

\* Line 45 false: lines 128-131.
loop_exit ==
    /\ pc = "loop"
    /\ ~LoopCond(Len(output), data_size, pos, DataLen)
    /\ pc' = "done"
    /\ printed' = printed \cup Incomplete(Len(output), data_size)
    /\ last' = [NoLast EXCEPT !.kind = "exit", !.pos0 = pos, !.out0 = output,
                              !.msgs = Incomplete(Len(output), data_size)]
    /\ UNCHANGED <<args, special_mode, output, pos, ec_value, special_flag, data_size,
                   special_counter, bit_count, command_byte, detected, bits, cmd_bytes,
                   emitted>>

\* Lines 47-49, then 128-131.
special_break ==
    /\ Running
    /\ CounterExhausted(special_mode, special_counter)
    /\ pc' = "done"
    /\ LET msgs == {"SpecialCounterZero"} \cup Incomplete(Len(output), data_size)
       IN /\ printed' = printed \cup msgs
          /\ last' = [NoLast EXCEPT !.kind = "special_break", !.pos0 = pos,
                                    !.out0 = output, !.msgs = msgs]
    /\ UNCHANGED <<args, special_mode, output, pos, ec_value, special_flag, data_size,
                   special_counter, bit_count, command_byte, detected, bits, cmd_bytes,
                   emitted>>

\* Lines 52-59: the next command bit.
Reload == NeedReload(bit_count)
FetchReads == IF Reload THEN {pos} ELSE {}
FetchedByte == IF Reload THEN At(pos) ELSE command_byte
PosAfterBit == IF Reload THEN pos + 1 ELSE pos
BitCountAfter == (IF Reload THEN 0 ELSE bit_count) + 1
command_bit == CommandBit(FetchedByte)

\* The assignments of one loop iteration.  stop: the iteration ended in a break
\* (lines 128-131 follow); emit: the command appended a literal or ran a copy.
Commit(kind, out1, p, msgs, rd, stop, emit, info) ==
    /\ output' = out1
    /\ pos' = p
    /\ bit_count' = BitCountAfter
    /\ command_byte' = ShiftCommand(FetchedByte)
    /\ special_counter' = IF emit THEN Decrement(special_mode, special_counter)
                          ELSE special_counter
    /\ pc' = IF stop THEN "done" ELSE "loop"
    /\ LET all == msgs \cup (IF stop THEN Incomplete(Len(out1), data_size) ELSE {})
       IN /\ printed' = printed \cup all
          /\ last' = [kind |-> kind, pos0 |-> pos, out0 |-> output, reads |-> rd,
                      msgs |-> all, loaded |-> Reload, bit |-> command_bit,
                      offset |-> info[1],
                      raw |-> info[2], n |-> info[3]]
    /\ bits' = Append(bits, command_bit)
    /\ cmd_bytes' = IF Reload THEN Append(cmd_bytes, FetchedByte) ELSE cmd_bytes
    /\ emitted' = IF emit THEN emitted + 1 ELSE emitted
    /\ UNCHANGED <<args, special_mode, ec_value, special_flag, data_size, detected>>

\* Lines 61-72.
literal ==
    /\ Running
    /\ ~CounterExhausted(special_mode, special_counter)
    /\ ~IndexError(FetchReads)
    /\ command_bit = 1
    /\ LET p1 == PosAfterBit
           rd == FetchReads \cup {p1}
       IN IF LiteralMissing(p1, DataLen)
          THEN Commit("truncated_literal", output, p1, {"EndOfInput"}, FetchReads,
                      TRUE, FALSE, <<0, 0, 0>>)
          ELSE IF IndexError(rd) THEN Raise("IndexError", rd, Reload, command_bit)
          ELSE Commit("literal", Append(output, At(p1)), AfterLiteral(p1), {}, rd,
                      FALSE, TRUE, <<0, 0, 0>>)

\* Lines 73-125.  (An IndexError at the command byte read is folded in here so
\* that the step is total; LoopCond rules it out.)
match ==
    /\ Running
    /\ ~CounterExhausted(special_mode, special_counter)
    /\ IndexError(FetchReads) \/ command_bit = 0
    /\ LET p1 == PosAfterBit
           match_info == At(p1) + At(p1 + 1) * 256
           p2 == AfterMatchInfo(p1)
           offset == MatchOffset(match_info)
           length_field == LengthField(match_info)
           ext == HasExtraLength(length_field, special_flag)
           p3 == IF ext THEN AfterExtra(p2) ELSE p2
           copy_length == length_field + ec_value + (IF ext THEN At(p2) ELSE 0)
           rd2 == FetchReads \cup {p1, p1 + 1}
           rd3 == IF ext THEN rd2 \cup {p2} ELSE rd2
           L == Len(output)
           large == copy_length > MaxCopy
           n1 == LimitCopyLength(copy_length)
           n2 == LimitToDataSize(n1, L, data_size)
           warn == (IF large THEN {"LargeCopyLength"} ELSE {})
                   \cup (IF n2 # n1 THEN {"CopyExceedsSize"} ELSE {})
           out1 == CopyBytes(output, offset, n2)
       IN IF IndexError(FetchReads) THEN Raise("IndexError", FetchReads, Reload, None)
          ELSE IF MatchInfoMissing(p1, DataLen)
          THEN Commit("truncated_match", output, p1, {"NoMatchInfo"}, FetchReads,
                      TRUE, FALSE, <<0, 0, 0>>)
          ELSE IF IndexError(rd2) THEN Raise("IndexError", rd2, Reload, command_bit)
          ELSE IF ext /\ ExtraMissing(p2, DataLen)
          THEN Commit("truncated_extra", output, p2, {"NoExtendedLength"}, rd2,
                      TRUE, FALSE, <<offset, 0, 0>>)
          ELSE IF IndexError(rd3) THEN Raise("IndexError", rd3, Reload, command_bit)
          ELSE IF InvalidOffset(offset, L)
          THEN Commit("skip", output, p3, {"InvalidOffset"}, rd3,
                      FALSE, FALSE, <<offset, copy_length, 0>>)
          ELSE IF EmptyOutput(L)
          THEN Commit("empty", output, p3, warn \cup {"EmptyOutputBuffer"}, rd3,
                      TRUE, FALSE, <<offset, copy_length, n2>>)
          ELSE IF n2 > 0 /\ PyIndex(output, L - offset) = None
          THEN Raise("IndexError", rd3, Reload, command_bit)
          ELSE Commit("copy", out1, p3, warn, rd3,
                      FALSE, TRUE, <<offset, copy_length, n2>>)

Next ==
    \/ detect_decompress_parameters
    \/ read_header
    \/ loop_exit
    \/ special_break
    \/ literal
    \/ match

Spec == Init /\ [][Next]_vars

\* The loop is sequential code: a step that can be taken is taken.
FairSpec == Spec /\ WF_vars(Next)

-----------------------------------------------------------------------------
(* Properties *)

IterKinds ==
    {"literal", "truncated_literal", "truncated_match", "truncated_extra",
     "skip", "empty", "copy", "IndexError"}

ErrorMsgs == {"EndOfInput", "NoMatchInfo", "NoExtendedLength", "EmptyOutputBuffer"}

\* The last iteration, re-read from the input: where its command's bytes start,
\* its match word, whether it carries an extra-length byte, its length before
\* the limits, and the length after them.
LastP1 == IF last.loaded THEN last.pos0 + 1 ELSE last.pos0
LastInfo == At(LastP1) + At(LastP1 + 1) * 256
LastExt == ((LastInfo \div 4096) % 16 = 15) /\ special_flag
LastRaw == ((LastInfo \div 4096) % 16) + ec_value + (IF LastExt THEN At(LastP1 + 2) ELSE 0)
LastOffset == (LastInfo % 4096) + 1
Min(a, b) == IF a < b THEN a ELSE b
LastClamped == Min(Min(LastRaw, MaxCopy), data_size - Len(last.out0))
LastIsMatch == last.kind \in IterKinds /\ last.bit = 0
LastIsLiteral == last.kind \in IterKinds /\ last.bit = 1
LastMatchRead ==
    /\ LastIsMatch
    /\ LastP1 + 1 < DataLen
    /\ LastExt => LastP1 + 2 < DataLen

\* C1: the output never grows past data_size: a literal is appended only while
\* the output is shorter than data_size, and a match appends at most the
\* bytes still missing.
C1_OutputWithinSize ==
    /\ Len(output) <= data_size
    /\ last.kind = "literal" => Len(last.out0) < data_size
    /\ last.kind = "copy" => Len(output) - Len(last.out0) <= data_size - Len(last.out0)

C1_Witness ==
    /\ last.kind = "copy"
    /\ "CopyExceedsSize" \in last.msgs
    /\ Len(output) = data_size

\* C2: a match that passes validation with offset o and limited length n, run
\* on an output of length L, keeps the first L bytes, appends exactly n bytes,
\* and the byte at L+k is the byte at L+k-o of the grown output.
C2_OverlappingCopy ==
    (LastMatchRead /\ LastOffset <= Len(last.out0)) =>
        LET L == Len(last.out0)
            o == LastOffset
            n == LastClamped
        IN /\ last.kind = "copy"
           /\ Len(output) = L + n
           /\ SubSeq(output, 1, L) = last.out0
           /\ \A k \in 0..(n - 1) : output[L + k + 1] = output[L + k - o + 1]

C2_Witness ==
    /\ last.kind = "copy"
    /\ LastOffset = 2
    /\ LastClamped = 3
    /\ output = <<65, 66, 65, 66, 65>>

\* C3: a fully read match whose offset exceeds the output length appends
\* nothing, prints the invalid-offset message and leaves the loop running with
\* the cursor just after the match's bytes (extra-length byte included).
C3_InvalidOffsetSkipped ==
    (LastMatchRead /\ LastOffset > Len(last.out0)) =>
        /\ last.kind = "skip"
        /\ output = last.out0
        /\ "InvalidOffset" \in last.msgs
        /\ pc = "loop"
        /\ pos = LastP1 + 2 + (IF LastExt THEN 1 ELSE 0)

C3_Witness ==
    /\ last.kind = "skip"
    /\ LastExt
    /\ pos = last.pos0 + 4
    /\ Running

\* C4: in special mode the counter is 256 minus the commands emitted, never
\* negative; no iteration runs once it is zero, and a decode that ends with the
\* counter at zero ends without an error message.
C4_SpecialCounter ==
    (special_mode /\ pc \in {"loop", "done"}) =>
        /\ special_counter = SpecialInit - emitted
        /\ special_counter >= 0
        /\ emitted <= SpecialInit
        /\ last.kind \in IterKinds =>
              special_counter + (IF last.kind \in {"literal", "copy"} THEN 1 ELSE 0) > 0
        /\ (special_counter = 0 /\ pc = "done") =>
              /\ last.kind \in {"special_break", "exit"}
              /\ last.msgs \cap ErrorMsgs = {}
              /\ output = last.out0

C4_Witness ==
    /\ special_mode
    /\ special_counter = 0
    /\ emitted = SpecialInit
    /\ last.kind = "special_break"
    /\ Len(output) > SpecialInit
    /\ "InvalidOffset" \in printed

\* C5: every iteration that leaves the loop running has moved the cursor
\* forward, the cursor stays within the buffer, and the decode ends.
C5_Progress ==
    /\ (pc = "loop" /\ last.kind \in IterKinds) => pos > last.pos0
    /\ pc \in {"loop", "done"} => pos <= DataLen

C5_Terminates == [](C5_Progress) /\ <>(pc \in {"done", "raised"})

C5_Witness ==
    /\ last.kind = "copy"
    /\ Len(output) = Len(last.out0)
    /\ ~last.loaded
    /\ pos = last.pos0 + 2
    /\ "InvalidOffset" \in printed

\* C6: the cursor never moves back, and every index the loop reads lies inside
\* the buffer.
C6_ReadsInBounds ==
    /\ pos >= last.pos0
    /\ last.kind \in IterKinds => \A i \in last.reads : i >= 0 /\ i < DataLen

C6_Witness ==
    /\ last.kind = "skip"
    /\ Cardinality(last.reads) = 4
    /\ pos = DataLen

\* C7: a literal with no byte left, a match with fewer than two bytes left, or
\* an extended match with no extra-length byte ends the decode at once with the
\* output as it was before the command.
C7_TruncationStops ==
    LET p1 == LastP1
        litTrunc == LastIsLiteral /\ p1 >= DataLen
        matchTrunc == LastIsMatch /\ p1 + 1 >= DataLen
        extraTrunc == LastIsMatch /\ p1 + 1 < DataLen /\ LastExt /\ p1 + 2 >= DataLen
    IN /\ litTrunc => last.kind = "truncated_literal"
       /\ matchTrunc => last.kind = "truncated_match"
       /\ extraTrunc => last.kind = "truncated_extra"
       /\ (litTrunc \/ matchTrunc \/ extraTrunc) => (pc = "done" /\ output = last.out0)

C7_Witness ==
    /\ last.kind = "truncated_extra"
    /\ Len(output) > 0
    /\ pc = "done"

\* C8: the n-th command bit consumed is bit (n mod 8) of command byte floor(n/8),
\* and a command byte is read exactly when n mod 8 = 0.
C8_BitOrder ==
    /\ \A n \in 0..(Len(bits) - 1) :
          bits[n + 1] = (cmd_bytes[(n \div 8) + 1] \div (2 ^ (n % 8))) % 2
    /\ Len(cmd_bytes) = (Len(bits) + 7) \div 8
    /\ (last.kind \in IterKinds /\ pc # "raised") =>
          /\ last.loaded <=> ((Len(bits) - 1) % 8 = 0)
          /\ last.loaded => cmd_bytes[Len(cmd_bytes)] = At(last.pos0)

C8_Witness ==
    /\ Len(bits) = 11
    /\ Len(cmd_bytes) = 2
    /\ "InvalidOffset" \in printed
    /\ bits[9] = 1 /\ bits[10] = 0 /\ bits[11] = 1

\* C10: with a 3-byte header present at the offset, the heuristic answers true
\* exactly when the control byte is 1 and the 16-bit size is a multiple of 256.
C10_DetectIff ==
    (detected # <<>> /\ start_offset + 2 < DataLen) =>
        (detected[1] <=> (At(start_offset) = 1
                          /\ (At(start_offset + 1) + At(start_offset + 2) * 256) % 256 = 0))

\* C11: with fewer than 3 bytes at the offset the decode returns as a failed
\* decode with an empty output and no loop iteration; with 3 or more the
\* header gives base length = control & 0x7F, flag = bit 7, size = byte1 +
\* 256 * byte2, and the cursor stands 3 bytes after the offset.  (The code
\* checks nothing before lines 20 and 30: the read raises IndexError and the
\* call returns no output at all.)
C11_Header ==
    pc \notin {"entry", "decode"} =>
        IF start_offset + 3 > DataLen
        THEN /\ pc = "done"
             /\ output = <<>>
             /\ bits = <<>>
        ELSE /\ pc # "raised"
             /\ ec_value = (IF At(start_offset) >= 128 THEN At(start_offset) - 128
                            ELSE At(start_offset))
             /\ special_flag <=> At(start_offset) >= 128
             /\ data_size = At(start_offset + 1) + 256 * At(start_offset + 2)
             /\ last.kind = "header" => (pos = start_offset + 3 /\ output = <<>>)

\* C12: a decode that ends without an error message and with fewer bytes than
\* data_size either ran in special mode with the counter at zero or has its
\* cursor at the end of the buffer; in standard mode with input left it never
\* stops short.
C12_ShortOnlyAtEnd ==
    (pc = "done" /\ printed \cap ErrorMsgs = {} /\ Len(output) < data_size) =>
        /\ (special_mode /\ special_counter = 0) \/ pos >= DataLen
        /\ ~special_mode => pos >= DataLen

C12_Witness ==
    /\ pc = "done"
    /\ ~special_mode
    /\ printed = {"Incomplete"}
    /\ Len(output) > 0
    /\ Len(output) < data_size
    /\ pos = DataLen

\* The stream after the header starts with data_size literal commands: command
\* k (from 0) has its bit set in the command byte of its group of 8, and its
\* literal byte is in the buffer.
LiteralAt(k) == start_offset + 3 + 9 * (k \div 8) + 1 + (k % 8)

LiteralStream ==
    /\ start_offset + 3 <= DataLen
    /\ \A k \in 0..(data_size - 1) :
          /\ LiteralAt(k) < DataLen
          /\ (At(start_offset + 3 + 9 * (k \div 8)) \div (2 ^ (k % 8))) % 2 = 1

LiteralsReturned ==
    /\ Len(output) = data_size
    /\ \A k \in 0..(data_size - 1) : output[k + 1] = At(LiteralAt(k))
    /\ printed = {}

\* C13 as stated: every all-literal stream of data_size literals decodes to
\* exactly those literals, complete and without a message.  In special mode
\* the counter stops the decode after 256 commands, so a longer stream is cut.
C13_Original == (pc = "done" /\ LiteralStream) => LiteralsReturned

\* C13: in standard mode, or in special mode with data_size at most the
\* counter's initial value, an all-literal stream of data_size literals
\* decodes to exactly those literals in stream order, complete and without a
\* message.
C13_LiteralRoundTrip ==
    (pc \in {"done", "raised"} /\ LiteralStream
        /\ (special_mode => data_size <= SpecialInit)) =>
            (pc = "done" /\ LiteralsReturned)

C13_Witness ==
    /\ pc = "done"
    /\ special_mode
    /\ data_size = SpecialInit
    /\ LiteralStream
    /\ Len(output) = SpecialInit

\* C14: a step never shortens the output nor changes a byte already written,
\* and the k-th byte of a copy is read from index Len + k - offset of the
\* output, which lies in 0 .. Len + k - 1: never negative, never the position
\* being written.
C14_AppendOnly ==
    /\ Len(last.out0) <= Len(output)
    /\ SubSeq(output, 1, Len(last.out0)) = last.out0
    /\ last.kind = "copy" =>
          \A k \in 0..(last.n - 1) :
              LET i == Len(last.out0) + k - last.offset
              IN  /\ 0 <= i
                  /\ i < Len(last.out0) + k
                  /\ output[Len(last.out0) + k + 1] = output[i + 1]

C14_Witness ==
    /\ last.kind = "copy"
    /\ last.n >= 2
    /\ last.offset = Len(last.out0)
    /\ Len(last.out0) >= 2
    /\ \E k \in 1..Len(output) : k > 2 /\ output[k] # output[1]

\* The loop stands before a command with the output still short, all 8 bits
\* of the command byte used (or none loaded yet) and the cursor at the end of
\* the buffer.
CommandByteMissing ==
    /\ last.kind \in {"exit", "IndexError"}
    /\ last.pos0 >= DataLen
    /\ bit_count = 8
    /\ Len(last.out0) < data_size

\* C15 as stated: a missing command byte ends the decode with a fatal error.
\* The loop condition of line 45 ends it first, with the incomplete warning only.
C15_Original ==
    CommandByteMissing => (pc = "done" /\ last.msgs \cap ErrorMsgs # {})

\* C15: when a new command byte is needed and no byte remains, the loop ends
\* without reading: the output so far is returned, with the incomplete warning
\* and no error message.
C15_MissingCommandByteEnds ==
    CommandByteMissing =>
        /\ pc = "done"
        /\ last.kind = "exit"
        /\ last.reads = {}
        /\ output = last.out0
        /\ last.msgs = {"Incomplete"}
        /\ printed \cap ErrorMsgs = {}

C15_Witness ==
    /\ CommandByteMissing
    /\ pc = "done"
    /\ Len(bits) >= 8
    /\ Len(output) > 0

\* C16: the empty-output abort of lines 115-117 is never taken: the offset is
\* at least 1, so a match decoded while the output is empty is skipped as an
\* invalid offset and the loop goes on.
C16_EmptyCopyUnreachable ==
    /\ last.kind # "empty"
    /\ "EmptyOutputBuffer" \notin printed
    /\ (last.kind \in {"skip", "empty", "copy"} /\ Len(last.out0) = 0) =>
          /\ last.kind = "skip"
          /\ last.offset >= 1
          /\ pc = "loop"
          /\ output = <<>>

C16_Witness ==
    /\ last.kind = "skip"
    /\ Len(bits) = 1
    /\ Len(last.out0) = 0
    /\ pos = last.pos0 + 3

\* C17: the copy length of a match before any clamp is at most 15 + 127 + 255
\* (15 + 127 without the extended-length flag), so it never exceeds the 0x2000
\* ceiling and the large-copy warning is never printed.
C17_CopyLengthBound ==
    /\ "LargeCopyLength" \notin printed
    /\ last.kind \in {"skip", "empty", "copy"} =>
          /\ last.raw <= 15 + 127 + 255
          /\ ~special_flag => last.raw <= 15 + 127
          /\ last.raw <= MaxCopy

C17_Witness ==
    /\ last.kind = "copy"
    /\ special_flag
    /\ last.raw = 15 + 127 + 255
    /\ Len(output) = Len(last.out0) + last.raw

====
